---- MODULE Spec2Model ----
(***************************************************************************)
(* A model of the transfer orchestrator of ftp_transfer                    *)
(* (src/ftp_transfer/core.py, FTPTransfer) together with the transport     *)
(* helpers of ftp_operations.py and the reporter of notification.py.       *)
(*                                                                         *)
(* File names are sequences of one-character strings.  The remote servers, *)
(* the local staging directory, the SMTP server and the wall clock are the *)
(* environment: every call into them either succeeds or hits a fault, and  *)
(* a behaviour has at most MaxDisturbances disturbances: faults, and        *)
(* invocations of transfer_files on an instance that has already run.      *)
(* The configuration is the default one with one feature varied.           *)
(*                                                                         *)
(* Spec is the orchestrator as a whole.  SpecNaming takes the renaming     *)
(* function on its own, SpecSelection the listing and the filter over      *)
(* source directories with a subdirectory and over every kind of filter    *)
(* rule, SpecStaging the staging directories of several instances.         *)
(***************************************************************************)
EXTENDS Integers, Sequences, FiniteSets, TLC

\* ------------------------------------------------------------------------
\* Bounds of the model
\* ------------------------------------------------------------------------
MaxFiles == 2
MaxDisturbances == 2
\* the clock is read in ticks, TicksPerSecond to the second
TicksPerSecond == 2
\* name generation on its own: number of calls and last instant
MaxResolutions == 2
MaxInstant == 5

\* ------------------------------------------------------------------------
\* File names
\* ------------------------------------------------------------------------
NameA == <<"a", ".", "t">>
NameB == <<"b">>
NameC == <<"c", ".", "T">>
NameD == <<"d", ".", "x">>

\* the regular files a source directory can hold, in the server's order
SourceFiles == <<NameB, NameA, NameC, NameD>>

Range(s) == {s[i] : i \in 1..Len(s)}

\* str.lower() on the characters the model uses
LowerChar(c) == IF c = "T" THEN "t" ELSE c

LowerStr(s) == [i \in 1..Len(s) |-> LowerChar(s[i])]

\* str.lower() on the strategy strings the model uses
LowerStrategy(s) == IF s = "SKIP" THEN "skip" ELSE s

\* index of the last "." of s, 0 when there is none (str.rfind + 1)
LastDot(s) ==
    IF \E i \in 1..Len(s) : s[i] = "."
    THEN CHOOSE i \in 1..Len(s) : s[i] = "." /\ \A j \in (i+1)..Len(s) : s[j] # "."
    ELSE 0

\* os.path.splitext: the extension starts at the last dot, unless only dots
\* precede it
SplitExt(s) ==
    LET d == LastDot(s) IN
    IF d > 0 /\ \E i \in 1..(d-1) : s[i] # "."
    THEN [base |-> SubSeq(s, 1, d-1), ext |-> SubSeq(s, d, Len(s))]
    ELSE [base |-> s, ext |-> <<>>]

Digit(n) ==
    CASE n = 0 -> "0" [] n = 1 -> "1" [] n = 2 -> "2" [] n = 3 -> "3"
      [] n = 4 -> "4" [] n = 5 -> "5" [] n = 6 -> "6" [] n = 7 -> "7"
      [] n = 8 -> "8" [] n = 9 -> "9"

Pad2(n) == <<Digit((n \div 10) % 10), Digit(n % 10)>>

\* datetime.now().strftime('%Y%m%d%H%M%S') for the instant t, counted in
\* ticks from 2025-01-01 00:00:00: the fraction of the second is dropped
Strftime(t) ==
    LET s == t \div TicksPerSecond IN
    <<"2", "0", "2", "5", "0", "1", "0", "1", "0", "0">>
        \o Pad2((s \div 60) % 60) \o Pad2(s % 60)

_generate_timestamped_filename(filename, t) ==
    LET p == SplitExt(filename) IN
    p.base \o <<"_">> \o Strftime(t) \o p.ext

\* ------------------------------------------------------------------------
\* Configuration
\* ------------------------------------------------------------------------
\* a file_filter section: type "none" is the empty section, type "absent" a
\* section without a type key; the other keys carry the defaults of
\* _filter_files when the section omits them
Rule(type, extensions, pattern, time_type, time_value) ==
    [type |-> type, extensions |-> extensions, pattern |-> pattern,
     time_type |-> time_type, time_value |-> time_value]

NoFilter == Rule("none", <<>>, <<>>, "since", <<>>)

FilterValues ==
    {NoFilter,
     Rule("all", <<>>, <<>>, "since", <<>>),
     Rule("extension", << <<"t">> >>, <<>>, "since", <<>>)}

\* time_value texts: a date, a date with a time of day, and two texts
\* strptime rejects
TimeValues == {<<"1">>, <<"1", " ", "0", ":">>, <<"x">>, <<"1", " ">>}

\* the rules _filter_files tells apart
FilterRules ==
    FilterValues
    \cup {Rule("absent", <<>>, <<>>, "since", <<>>),
          Rule("absent", << <<"t">> >>, <<>>, "since", <<>>),
          Rule("extension", << <<"T">>, <<>> >>, <<>>, "since", <<>>),
          Rule("extension", <<>>, <<>>, "since", <<>>),
          Rule("pattern", <<>>, <<"a">>, "since", <<>>)}
    \cup {Rule(ty, <<>>, <<>>, tt, tv) :
              ty \in {"creation_time", "modification_time"},
              tt \in {"since", "before", "around"}, tv \in TimeValues}

StrategyValues == {"rename", "skip", "overwrite", "SKIP", "keep"}

BackupDirValues == {"", "bak"}

DefaultThreshold == 3

ThresholdValues == {DefaultThreshold, 1}

\* the directory of the source server that holds the files, and the working
\* directory of a session after login
SourcePath == <<"/", "i">>

LoginDir == <<"/">>

\* the keys a source section carries: the directory, absolute or relative
\* to the login directory, and the backup switch keys: enable_backup, the
\* key FTPTransfer.__init__ reads, and backup_enabled, which it does not
SourceKeyValues ==
    {[enable_backup |-> "absent", backup_enabled |-> "absent",
      directory |-> SourcePath],
     [enable_backup |-> "false", backup_enabled |-> "absent",
      directory |-> SourcePath],
     [enable_backup |-> "absent", backup_enabled |-> "false",
      directory |-> SourcePath],
     [enable_backup |-> "absent", backup_enabled |-> "absent",
      directory |-> <<"i">>]}

\* source_config.get('enable_backup', True)
EnableBackupOf(keys) ==
    IF keys.enable_backup = "absent" THEN TRUE ELSE keys.enable_backup = "true"

AllConfigs ==
    [source_config : SourceKeyValues,
     source_use_sftp : BOOLEAN,
     dest_use_sftp : BOOLEAN,
     file_exists_strategy : StrategyValues,
     source_enable_backup : BOOLEAN,
     source_backup_dir : BackupDirValues,
     email_enable : BOOLEAN,
     failure_threshold : ThresholdValues,
     file_filter : FilterValues]

\* the values FTPTransfer.__init__ uses for the keys a configuration omits
DefaultConfig ==
    [source_config |-> [enable_backup |-> "absent", backup_enabled |-> "absent",
                        directory |-> SourcePath],
     source_use_sftp |-> FALSE,
     dest_use_sftp |-> FALSE,
     file_exists_strategy |-> "rename",
     source_enable_backup |-> TRUE,
     source_backup_dir |-> "",
     email_enable |-> FALSE,
     failure_threshold |-> DefaultThreshold,
     file_filter |-> NoFilter]

\* the keys of one feature (the two protocols, the two backup keys) vary
\* together
Features ==
    {{"source_use_sftp", "dest_use_sftp"}, {"file_exists_strategy"},
     {"source_config", "source_enable_backup", "source_backup_dir"},
     {"email_enable"},
     {"failure_threshold"}, {"file_filter"}}

Deviations(c) ==
    Cardinality({f \in Features : \E k \in f : c[k] # DefaultConfig[k]})

\* the default configuration and its variations in one feature
Configs ==
    {c \in AllConfigs :
        /\ Deviations(c) <= 1
        /\ c.source_enable_backup = EnableBackupOf(c.source_config)}

\* the source directory holds the first n files of SourceFiles
Listings == {SubSeq(SourceFiles, 1, n) : n \in 0..MaxFiles}


\* ------------------------------------------------------------------------
\* State
\* ------------------------------------------------------------------------
VARIABLES
    \* configuration read by FTPTransfer.__init__
    source_config, source_use_sftp, dest_use_sftp, file_exists_strategy,
    source_enable_backup, source_backup_dir, email_enable,
    failure_threshold, file_filter,
    \* outcome accounting of the instance
    found_files, success_files, skipped_files, failed_files, errors,
    renamed_files,
    \* position and locals of transfer_files
    pc, source_conn, dest_conn, file_list, total_files, idx, pending,
    \* environment: source directory (in listing order), destination
    \* directory, local staging directory, wall clock
    srcDir, dstDir, staging, now,
    \* bookkeeping: invocations so far, faults so far, transport calls and
    \* reporter calls of the current invocation, errors before it, whether
    \* the per-file loop ran to its end, what the invocation gave its caller
    runs, faults, calls, reports, errors_before, loop_done, result

cfgVars == <<source_config, source_use_sftp, dest_use_sftp, file_exists_strategy,
             source_enable_backup, source_backup_dir, email_enable,
             failure_threshold, file_filter>>

bucketVars == <<found_files, success_files, skipped_files, failed_files,
                renamed_files>>

worldVars == <<srcDir, dstDir, staging, now>>

vars == <<cfgVars, bucketVars, errors, pc, source_conn, dest_conn, file_list,
          total_files, idx, pending, worldVars, runs, faults, calls, reports,
          errors_before, loop_done, result>>

EmptyDict == [n \in {} |-> <<>>]

DictSet(d, k, v) == [n \in DOMAIN d \cup {k} |-> IF n = k THEN v ELSE d[n]]

NoResult == [kind |-> "none", value |-> <<0, 0, 0, 0>>]

Returned(t) == [kind |-> "returned", value |-> t]

Raised == [kind |-> "raised", value |-> <<0, 0, 0, 0>>]

\* one call into a server or the staging directory, and how it went
Call(op, a, b, st) == [op |-> op, name |-> a, arg |-> b, status |-> st]

\* FTPTransfer.__init__: configuration loaded, buckets empty
Init ==
    /\ \E c \in Configs :
        /\ source_config = c.source_config
        /\ source_use_sftp = c.source_use_sftp
        /\ dest_use_sftp = c.dest_use_sftp
        /\ file_exists_strategy = c.file_exists_strategy
        /\ source_enable_backup = c.source_enable_backup
        /\ source_backup_dir = c.source_backup_dir
        /\ email_enable = c.email_enable
        /\ failure_threshold = c.failure_threshold
        /\ file_filter = c.file_filter
    /\ found_files = <<>>
    /\ success_files = <<>>
    /\ skipped_files = <<>>
    /\ failed_files = EmptyDict
    /\ errors = <<>>
    /\ renamed_files = EmptyDict
    /\ pc = "idle"
    /\ source_conn = "none"
    /\ dest_conn = "none"
    /\ file_list = <<>>
    /\ total_files = 0
    /\ idx = 0
    /\ pending = <<0, 0, 0, 0>>
    /\ srcDir \in Listings
    /\ dstDir \in SUBSET Range(srcDir)
    /\ staging = {}
    /\ now = 0
    /\ runs = 0
    /\ faults = 0
    /\ calls = <<>>
    /\ reports = <<>>
    /\ errors_before = 0
    /\ loop_done = FALSE
    /\ result = NoResult

\* the disturbances so far: the faults and the invocations after the first
Disturbances == faults + (IF runs > 1 THEN runs - 1 ELSE 0)

CanDisturb(n) == Disturbances + n <= MaxDisturbances

\* a caller enters transfer_files on the instance
Invoke ==
    /\ pc = "idle"
    /\ runs = 0 \/ CanDisturb(1)
    /\ pc' = "connect_source"
    /\ runs' = runs + 1
    /\ source_conn' = "none"
    /\ dest_conn' = "none"
    /\ file_list' = <<>>
    /\ total_files' = 0
    /\ idx' = 0
    /\ pending' = <<0, 0, 0, 0>>
    /\ calls' = <<>>
    /\ reports' = <<>>
    /\ errors_before' = Len(errors)
    /\ loop_done' = FALSE
    /\ result' = NoResult
    /\ UNCHANGED <<cfgVars, bucketVars, errors, worldVars, faults>>

\* session.quit() of ftplib raises when the server does not answer; close_sftp
\* catches everything
CanRaiseOnClose(use_sftp) == ~use_sftp

\* connect to the source; on failure record the error and go to the report
ConnectSource ==
    /\ pc = "connect_source"
    /\ \/ /\ source_conn' = "open"
          /\ pc' = "list"
          /\ calls' = Append(calls, Call("connect_source", <<>>, <<>>, "ok"))
          /\ UNCHANGED <<errors, pending, faults>>
       \/ /\ CanDisturb(1)
          /\ faults' = faults + 1
          /\ calls' = Append(calls, Call("connect_source", <<>>, <<>>, "raise"))
          /\ errors' = Append(errors, "connect_source")
          /\ pending' = <<0, 0, 0, 0>>
          /\ pc' = "report"
          /\ UNCHANGED source_conn
    /\ UNCHANGED <<cfgVars, bucketVars, dest_conn, file_list, total_files, idx,
                   worldVars, runs, reports, errors_before, loop_done, result>>


\* an entry of the source directory that is a directory itself
NameS == <<"s">>

IsDir(name) == name = NameS

IsAbsolute(directory) == Len(directory) > 0 /\ directory[1] = "/"

\* the directory cwd(directory) asks for in a session whose working
\* directory is wd
Resolve(wd, directory) ==
    IF IsAbsolute(directory) THEN directory
    ELSE IF wd = LoginDir THEN wd \o directory
    ELSE wd \o <<"/">> \o directory

\* the directories of the source server a session can change into
ServerDirs == {LoginDir, SourcePath}

CwdOk(wd, directory) == Resolve(wd, directory) \in ServerDirs

\* file_exists as get_file_list calls it for one entry, in a session whose
\* working directory is wd: pwd, cwd(directory), size, cwd back; any
\* exception is answered False. SIZE of a directory is refused, and
\* size_refused tells a server that refuses every SIZE command
source_file_exists(wd, directory, name, size_refused) ==
    CwdOk(wd, directory) /\ ~IsDir(name) /\ ~size_refused

\* get_file_list: cwd(directory), NLST, and every entry kept that
\* file_exists confirms and that is_directory denies
get_file_list(entries, directory, size_refused) ==
    LET wd == Resolve(LoginDir, directory)
    IN SelectSeq(entries,
                 LAMBDA n : source_file_exists(wd, directory, n, size_refused)
                            /\ ~IsDir(n))

\* get_sftp_file_list: the entries of listdir_attr whose mode has no
\* directory bit
get_sftp_file_list(entries) == SelectSeq(entries, LAMBDA n : ~IsDir(n))

\* get_file_list / get_sftp_file_list on the source session; a failure of
\* the listing itself is re-raised to transfer_files
ListFiles ==
    /\ pc = "list"
    /\ \/ \E size_refused \in BOOLEAN :
             /\ size_refused =>
                    /\ ~source_use_sftp
                    /\ CwdOk(Resolve(LoginDir, source_config.directory),
                             source_config.directory)
                    /\ \E n \in Range(srcDir) : ~IsDir(n)
                    /\ CanDisturb(1)
             /\ faults' = faults + (IF size_refused THEN 1 ELSE 0)
             /\ file_list' =
                    IF source_use_sftp
                    THEN get_sftp_file_list(srcDir)
                    ELSE get_file_list(srcDir, source_config.directory,
                                       size_refused)
             /\ calls' = Append(calls,
                    Call("list", <<>>,
                         IF size_refused THEN "size_refused" ELSE "", "ok"))
             /\ pc' = "filter"
       \/ /\ CanDisturb(1)
          /\ faults' = faults + 1
          /\ calls' = Append(calls, Call("list", <<>>, "", "raise"))
          /\ pc' = "except"
          /\ UNCHANGED file_list
    /\ UNCHANGED <<cfgVars, bucketVars, errors, source_conn, dest_conn,
                   total_files, idx, pending, worldVars, runs, reports,
                   errors_before, loop_done, result>>

\* filename.split('.')[-1].lower() if '.' in filename else ''
FileExt(filename) ==
    IF LastDot(filename) > 0
    THEN LowerStr(SubSeq(filename, LastDot(filename) + 1, Len(filename)))
    ELSE <<>>

ExtensionMatches(filename, extensions) ==
    \E i \in 1..Len(extensions) : LowerStr(extensions[i]) = FileExt(filename)

\* re.search of the pattern text in the name; the patterns of FilterRules
\* carry no wildcard, so the regular expression is the text itself
RegexSearch(pattern, filename) ==
    \E i \in 0..(Len(filename) - Len(pattern)) :
        SubSeq(filename, i + 1, i + Len(pattern)) = pattern

DayOf(c) == CASE c = "0" -> 0 [] c = "1" -> 1 [] OTHER -> -1

\* datetime.strptime of the time_value text, with the date-and-time format
\* when the text holds a blank and a colon and the date format otherwise;
\* an instant counts half days
ParseTime(v) ==
    IF " " \in Range(v) /\ ":" \in Range(v)
    THEN IF Len(v) = 4 /\ DayOf(v[1]) >= 0 /\ v[2] = " " /\ DayOf(v[3]) >= 0
            /\ v[4] = ":"
         THEN [ok |-> TRUE, t |-> 2 * DayOf(v[1]) + DayOf(v[3])]
         ELSE [ok |-> FALSE, t |-> 0]
    ELSE IF Len(v) = 1 /\ DayOf(v[1]) >= 0
         THEN [ok |-> TRUE, t |-> 2 * DayOf(v[1])]
         ELSE [ok |-> FALSE, t |-> 0]

\* the instants a file of the source can carry
FileTimes == 1..3

\* no timestamp: None in the code
NoTime == 0

\* as NeedFileInfo, but for every rule that filters at all
NeedFileInfo_EveryRule(flt) == flt.type \notin {"none", "all"}

NeedFileInfo(flt) == flt.type \in {"creation_time", "modification_time"}

\* the timestamp _filter_files compares: modified_time or created_time of
\* get_sftp_file_info (stat results of the SFTP client carry no st_ctime, so
\* created_time is None), get_file_modification_time for FTP and
\* modification_time, nothing for FTP and creation_time
FileTime(flt, use_sftp, answer) ==
    IF flt.type = "modification_time" THEN answer ELSE NoTime

\* the test of one name with the threshold itself outside the window
KeepsFile_StrictWindow(filename, flt, use_sftp, answer) ==
    CASE flt.type = "pattern" -> RegexSearch(flt.pattern, filename)
      [] flt.type = "extension" -> ExtensionMatches(filename, flt.extensions)
      [] NeedFileInfo(flt) ->
            LET file_time == FileTime(flt, use_sftp, answer)
                filter_time == ParseTime(flt.time_value)
            IN /\ filter_time.ok
               /\ file_time # NoTime
               /\ \/ flt.time_type = "since" /\ file_time > filter_time.t
                  \/ flt.time_type = "before" /\ file_time < filter_time.t
      [] OTHER -> FALSE

\* the test of one name in the loop of _filter_files; answer is what the
\* server gave for the timestamp of the name, NoTime when it gave nothing
KeepsFile(filename, flt, use_sftp, answer) ==
    CASE flt.type = "pattern" -> RegexSearch(flt.pattern, filename)
      [] flt.type = "extension" -> ExtensionMatches(filename, flt.extensions)
      [] NeedFileInfo(flt) ->
            LET file_time == FileTime(flt, use_sftp, answer)
                filter_time == ParseTime(flt.time_value)
            IN /\ filter_time.ok
               /\ file_time # NoTime
               /\ \/ flt.time_type = "since" /\ file_time >= filter_time.t
                  \/ flt.time_type = "before" /\ file_time <= filter_time.t
      [] OTHER -> FALSE

\* _filter_files with the early return taken for the empty section only
_filter_files_OnlyEmptySection(list, flt, use_sftp, times) ==
    IF flt.type = "none"
    THEN list
    ELSE SelectSeq(list, LAMBDA f : KeepsFile(f, flt, use_sftp, times[f]))

\* the list _filter_files returns when nothing propagates out of it
_filter_files(list, flt, use_sftp, times) ==
    IF flt.type = "none" \/ flt.type = "all"
    THEN list
    ELSE SelectSeq(list, LAMBDA f : KeepsFile(f, flt, use_sftp, times[f]))

\* as QueriesTime, but FTP is asked for creation_time rules too
QueriesTime_AnyTimeRule(flt, use_sftp) ==
    NeedFileInfo(flt) /\ ParseTime(flt.time_value).ok

\* whether the loop asks the server for the timestamp of a name
QueriesTime(flt, use_sftp) ==
    /\ NeedFileInfo(flt)
    /\ ParseTime(flt.time_value).ok
    /\ use_sftp \/ flt.type = "modification_time"

\* what the environment does during one _filter_files: the extra source
\* connection, the answer to each timestamp query, the closing of the extra
\* connection
IdleEnv(list) ==
    [connect |-> "none", times |-> [f \in Range(list) |-> NoTime],
     close |-> "none"]

FilterEnvs(list, flt, use_sftp) ==
    IF Len(list) > 0 /\ NeedFileInfo(flt)
    THEN {[connect |-> "raise", times |-> [f \in Range(list) |-> NoTime],
           close |-> "none"]}
         \cup [connect : {"ok"},
               times : IF QueriesTime(flt, use_sftp)
                       THEN [Range(list) -> FileTimes \cup {NoTime}]
                       ELSE {[f \in Range(list) |-> NoTime]},
               close : IF CanRaiseOnClose(use_sftp) THEN {"ok", "raise"}
                       ELSE {"ok"}]
    ELSE {IdleEnv(list)}

\* an exception leaves _filter_files when the extra connection cannot be
\* opened or when quit() raises in the finally clause
FilterRaises(fe) == fe.connect = "raise" \/ fe.close = "raise"

\* the faults among the answers: a failed connect, a failed close, and each
\* timestamp query that gave nothing
FilterFaults(list, flt, use_sftp, fe) ==
    (IF fe.connect = "raise" THEN 1 ELSE 0)
    + (IF fe.close = "raise" THEN 1 ELSE 0)
    + (IF QueriesTime(flt, use_sftp)
       THEN Cardinality({f \in Range(list) : fe.times[f] = NoTime})
       ELSE 0)

RECURSIVE TimeCalls(_, _)
TimeCalls(list, fe) ==
    IF list = <<>> THEN <<>>
    ELSE <<Call("filter_time", Head(list), fe.times[Head(list)],
                IF fe.times[Head(list)] = NoTime THEN "none" ELSE "ok")>>
         \o TimeCalls(Tail(list), fe)

\* the calls of one _filter_files on the extra connection
FilterCalls(list, flt, use_sftp, fe) ==
    IF fe.connect = "none" THEN <<>>
    ELSE IF fe.connect = "raise"
    THEN <<Call("filter_connect", <<>>, <<>>, "raise")>>
    ELSE <<Call("filter_connect", <<>>, <<>>, "ok")>>
         \o (IF QueriesTime(flt, use_sftp) /\ fe.connect = "ok"
             THEN TimeCalls(list, fe) ELSE <<>>)
         \o <<Call("filter_close", <<>>, <<>>, fe.close)>>

\* the filter is applied to a non-empty listing when a rule is configured;
\* an exception out of it goes to the handler of transfer_files, an empty
\* result closes the source session and goes to the report
FilterFiles ==
    /\ pc = "filter"
    /\ \E fe \in FilterEnvs(file_list, file_filter, source_use_sftp) :
        LET applies == Len(file_list) > 0 /\ file_filter.type # "none"
            filtered == IF applies
                        THEN _filter_files(file_list, file_filter,
                                           source_use_sftp, fe.times)
                        ELSE file_list
            fcalls == FilterCalls(file_list, file_filter, source_use_sftp, fe)
            n == FilterFaults(file_list, file_filter, source_use_sftp, fe)
        IN /\ CanDisturb(n)
           /\ IF FilterRaises(fe)
              THEN /\ calls' = calls \o fcalls
                   /\ faults' = faults + n
                   /\ pc' = "except"
                   /\ UNCHANGED <<file_list, total_files, source_conn, pending>>
              ELSE /\ file_list' = filtered
                   /\ total_files' = Len(filtered)
                   /\ IF Len(filtered) = 0
                      THEN \/ /\ source_conn' = "closed"
                              /\ calls' = calls \o fcalls \o
                                    <<Call("close_source", <<>>, <<>>, "ok")>>
                              /\ pending' = <<0, 0, 0, 0>>
                              /\ pc' = "report"
                              /\ faults' = faults + n
                           \/ /\ CanRaiseOnClose(source_use_sftp)
                              /\ CanDisturb(n + 1)
                              /\ faults' = faults + n + 1
                              /\ calls' = calls \o fcalls \o
                                    <<Call("close_source", <<>>, <<>>, "raise")>>
                              /\ pc' = "except"
                              /\ UNCHANGED <<source_conn, pending>>
                      ELSE /\ pc' = "connect_dest"
                           /\ calls' = calls \o fcalls
                           /\ faults' = faults + n
                           /\ UNCHANGED <<source_conn, pending>>
    /\ UNCHANGED <<cfgVars, bucketVars, errors, dest_conn, idx, worldVars,
                   runs, reports, errors_before, loop_done, result>>

\* connect to the destination; on failure record the error, close the source
\* session and go to the report with (total_files, 0, 0, 0)
ConnectDest ==
    /\ pc = "connect_dest"
    /\ \/ /\ dest_conn' = "open"
          /\ calls' = Append(calls, Call("connect_dest", <<>>, <<>>, "ok"))
          /\ renamed_files' = EmptyDict
          /\ idx' = 1
          /\ pc' = "loop"
          /\ UNCHANGED <<errors, source_conn, pending, faults>>
       \/ /\ CanDisturb(1)
          /\ errors' = Append(errors, "connect_dest")
          /\ \/ /\ faults' = faults + 1
                /\ source_conn' = "closed"
                /\ calls' = calls \o <<Call("connect_dest", <<>>, <<>>, "raise"),
                                       Call("close_source", <<>>, <<>>, "ok")>>
                /\ pending' = <<total_files, 0, 0, 0>>
                /\ pc' = "report"
             \/ /\ CanRaiseOnClose(source_use_sftp)
                /\ CanDisturb(2)
                /\ faults' = faults + 2
                /\ calls' = calls \o <<Call("connect_dest", <<>>, <<>>, "raise"),
                                       Call("close_source", <<>>, <<>>, "raise")>>
                /\ pc' = "except"
                /\ UNCHANGED <<source_conn, pending>>
          /\ UNCHANGED <<dest_conn, renamed_files, idx>>
    /\ UNCHANGED <<cfgVars, found_files, success_files, skipped_files,
                   failed_files, file_list, total_files, worldVars, runs,
                   reports, errors_before, loop_done, result>>


\* ------------------------------------------------------------------------
\* One iteration of the per-file loop
\* ------------------------------------------------------------------------
\* what the environment does to the calls of one iteration
OkEnv ==
    [exists_fault |-> FALSE, src_cwd |-> "ok", download |-> "ok",
     dst_cwd |-> "ok", upload |-> "ok", rm_failed_upload |-> "ok",
     move |-> "ok", rm_cleanup |-> "ok"]

\* a fault ends the iteration or is followed by the calls that still run
\* after it: the removal after a failed upload, the final cleanup
FileEnvs ==
    LET ends ==
            {OkEnv}
            \cup {[OkEnv EXCEPT !.src_cwd = v] : v \in {"perm", "other"}}
            \cup {[OkEnv EXCEPT !.download = v] : v \in {"fail", "fail_left"}}
            \cup {[OkEnv EXCEPT !.dst_cwd = "fail"]}
            \cup {[OkEnv EXCEPT !.upload = "fail", !.rm_failed_upload = v]
                    : v \in {"ok", "fail"}}
            \cup {[OkEnv EXCEPT !.move = m, !.rm_cleanup = c]
                    : m \in {"ok", "fail"}, c \in {"ok", "fail"}}
    IN {[e EXCEPT !.exists_fault = x] : e \in ends, x \in BOOLEAN}

\* as file_exists, but a fault of the check is not turned into false
file_exists_FaultIgnored(filename, e) == filename \in dstDir

\* file_exists / sftp_file_exists: true when the server confirms the file,
\* false when it is missing and false on any fault
file_exists(filename, e) == filename \in dstDir /\ ~e.exists_fault

\* the collision decision of the loop body
ResolveSkip(exists, strategy) == exists /\ LowerStrategy(strategy) = "skip"

\* as ResolveRename, but a file the destination does not hold is renamed too
ResolveRename_IgnoresExists(exists, strategy) ==
    LowerStrategy(strategy) \notin {"skip", "overwrite"}

\* as ResolveRename, but overwrite renames like rename does
ResolveRename_OverwriteRenames(exists, strategy) ==
    exists /\ LowerStrategy(strategy) # "skip"

\* as ResolveRename, but only the strategy spelled rename renames
ResolveRename_OnlyRename(exists, strategy) ==
    exists /\ LowerStrategy(strategy) = "rename"

ResolveRename(exists, strategy) ==
    exists /\ LowerStrategy(strategy) \notin {"skip", "overwrite"}

\* as BackupConfigured, but the enable_backup switch is not consulted
BackupConfigured_IgnoresSwitch == source_backup_dir # ""

BackupConfigured == source_enable_backup /\ source_backup_dir # ""

local_temp_path(upload_filename) == <<"temp_">> \o upload_filename

\* where the iteration ends, given what the environment does
FileEnd(filename, e) ==
    LET exists == file_exists(filename, e) IN
    IF ResolveSkip(exists, file_exists_strategy) THEN "skipped"
    ELSE IF ~source_use_sftp /\ e.src_cwd = "perm" THEN "cwd_source_failed"
    ELSE IF ~source_use_sftp /\ e.src_cwd = "other" THEN "cwd_source_raised"
    ELSE IF e.download # "ok" THEN "download_failed"
    ELSE IF ~dest_use_sftp /\ e.dst_cwd = "fail" THEN "cwd_dest_raised"
    ELSE IF e.upload = "fail"
         THEN IF e.rm_failed_upload = "fail" THEN "upload_failed_remove_raised"
              ELSE "upload_failed"
    ELSE IF BackupConfigured
         THEN IF e.move = "ok" THEN "moved" ELSE "move_failed"
    ELSE "no_backup"

Uploaded(end) == end \in {"moved", "move_failed", "no_backup"}

\* as Downloaded, but counting a failed download as one
Downloaded_AlsoFailed(end) ==
    Uploaded(end) \/ end \in {"cwd_dest_raised", "upload_failed",
                              "upload_failed_remove_raised",
                              "download_failed"}

Downloaded(end) ==
    Uploaded(end) \/ end \in {"cwd_dest_raised", "upload_failed",
                              "upload_failed_remove_raised"}

\* as FileRaises, but a failed download is not caught in download_file
FileRaises_DownloadEscapes(end, e) ==
    \/ end \in {"cwd_source_raised", "cwd_dest_raised",
                "upload_failed_remove_raised", "download_failed"}
    \/ Uploaded(end) /\ e.rm_cleanup = "fail"

\* the iteration leaves the loop with an exception
FileRaises(end, e) ==
    \/ end \in {"cwd_source_raised", "cwd_dest_raised",
                "upload_failed_remove_raised"}
    \/ Uploaded(end) /\ e.rm_cleanup = "fail"

\* the bucket the iteration puts the file in ("none": no bucket)
FileBucket(end) ==
    CASE end = "skipped" -> "skipped"
      [] end \in {"cwd_source_failed", "download_failed", "upload_failed",
                  "move_failed"} -> "failed"
      [] end \in {"moved", "no_backup"} -> "success"
      [] OTHER -> "none"

FailReason(end) ==
    CASE end = "cwd_source_failed" -> "cwd_source"
      [] end = "download_failed" -> "download"
      [] end = "upload_failed" -> "upload"
      [] OTHER -> "move"

\* the environment outcomes the iteration runs into, and no others
FaultsOf(filename, e) ==
    LET end == FileEnd(filename, e) IN
      (IF e.exists_fault THEN 1 ELSE 0)
    + (IF e.src_cwd # "ok" THEN 1 ELSE 0)
    + (IF e.download = "fail" THEN 1 ELSE IF e.download = "fail_left" THEN 2 ELSE 0)
    + (IF e.dst_cwd # "ok" THEN 1 ELSE 0)
    + (IF e.upload # "ok" THEN 1 ELSE 0)
    + (IF e.rm_failed_upload # "ok" THEN 1 ELSE 0)
    + (IF e.move # "ok" THEN 1 ELSE 0)
    + (IF e.rm_cleanup # "ok" THEN 1 ELSE 0)

EnvReached(filename, e) ==
    LET end == FileEnd(filename, e) IN
    /\ e.exists_fault => filename \in dstDir
    /\ e.src_cwd # "ok" => end \in {"cwd_source_failed", "cwd_source_raised"}
    /\ e.download # "ok" => end = "download_failed"
    /\ e.dst_cwd # "ok" => end = "cwd_dest_raised"
    /\ e.upload # "ok" => end \in {"upload_failed", "upload_failed_remove_raised"}
    /\ e.rm_failed_upload # "ok" => end = "upload_failed_remove_raised"
    /\ e.move # "ok" => end = "move_failed"
    /\ e.rm_cleanup # "ok" => Uploaded(end)

SuccessEntry(filename, renamed) ==
    IF filename \in DOMAIN renamed
    THEN filename \o <<" -> ">> \o renamed[filename]
    ELSE filename

\* as MoveTarget, but landing under the name the file has on the source
MoveTarget_OriginalName(filename, upload_filename) ==
    <<source_backup_dir, "/">> \o filename

\* where the backup move puts the file: self.source_backup_dir + '/' +
\* upload_filename for move_remote_file, the join of the backup directory
\* and upload_filename in sftp_move_remote_file
MoveTarget(filename, upload_filename) ==
    <<source_backup_dir, "/">> \o upload_filename

FileCalls(filename, upload_filename, end, e) ==
    LET path == local_temp_path(upload_filename)
        past_cwd == end \notin {"skipped", "cwd_source_failed", "cwd_source_raised"}
    IN
    <<Call("exists", filename,
           IF e.exists_fault THEN "fault"
           ELSE IF filename \in dstDir THEN "present" ELSE "missing",
           IF file_exists(filename, e) THEN "true" ELSE "false"),
      \* the name decision of the collision branch, kept with the calls
      Call("resolve", filename, upload_filename,
           IF end = "skipped" THEN "skip"
           ELSE IF upload_filename # filename THEN "renamed" ELSE "kept")>>
    \o (IF end # "skipped" /\ ~source_use_sftp
        THEN <<Call("cwd_source", filename, <<>>,
                    IF e.src_cwd = "other" THEN "raise" ELSE e.src_cwd)>>
        ELSE <<>>)
    \o (IF past_cwd
        THEN <<Call("download", filename, path,
                    IF e.download = "ok" THEN "ok" ELSE "fail")>>
        ELSE <<>>)
    \o (IF end = "download_failed"
        THEN <<Call("remove", filename, path,
                    IF e.download = "fail_left" THEN "fail" ELSE "ok")>>
        ELSE <<>>)
    \o (IF Downloaded(end) /\ ~dest_use_sftp
        THEN <<Call("cwd_dest", filename, <<>>,
                    IF e.dst_cwd = "ok" THEN "ok" ELSE "raise")>>
        ELSE <<>>)
    \o (IF Downloaded(end) /\ end # "cwd_dest_raised"
        THEN <<Call("upload", filename, upload_filename, e.upload)>>
        ELSE <<>>)
    \o (IF end \in {"upload_failed", "upload_failed_remove_raised"}
        THEN <<Call("remove", filename, path,
                    IF e.rm_failed_upload = "ok" THEN "ok" ELSE "raise")>>
        ELSE <<>>)
    \o (IF end \in {"moved", "move_failed"}
        THEN <<Call("move", filename,
                    MoveTarget(filename, upload_filename), e.move)>>
        ELSE <<>>)
    \o (IF Uploaded(end)
        THEN <<Call("remove", filename, path,
                    IF e.rm_cleanup = "ok" THEN "ok" ELSE "raise")>>
        ELSE <<>>)

\* the staging directory after the iteration
StagingAfter(path, end, e) ==
    CASE end \in {"skipped", "cwd_source_failed", "cwd_source_raised"} -> staging
      [] end = "download_failed" ->
            IF e.download = "fail_left" THEN staging \cup {path}
            ELSE staging \ {path}
      [] end \in {"cwd_dest_raised", "upload_failed_remove_raised"} ->
            staging \cup {path}
      [] end = "upload_failed" -> staging \ {path}
      [] OTHER -> IF e.rm_cleanup = "fail" THEN staging \cup {path}
                  ELSE staging \ {path}

\* datetime.now(): within the second of the last reading, or at the start
\* of the second numbered by the invocation
Clock == {now, (runs - 1) * TicksPerSecond}

\* the body of `for filename in file_list`, for the file at idx
ProcessFile ==
    /\ pc = "loop"
    /\ idx <= Len(file_list)
    /\ \E e \in FileEnvs, t \in Clock :
        LET filename == file_list[idx]
            exists == file_exists(filename, e)
            rename == ResolveRename(exists, file_exists_strategy)
            upload_filename ==
                IF rename THEN _generate_timestamped_filename(filename, t)
                ELSE filename
            end == FileEnd(filename, e)
            bucket == FileBucket(end)
            renamed == IF rename THEN DictSet(renamed_files, filename, upload_filename)
                       ELSE renamed_files
        IN
        /\ EnvReached(filename, e)
        /\ CanDisturb(FaultsOf(filename, e))
        /\ rename \/ t = now
        /\ faults' = faults + FaultsOf(filename, e)
        /\ now' = t
        /\ renamed_files' = renamed
        /\ calls' = calls \o FileCalls(filename, upload_filename, end, e)
        /\ skipped_files' = IF bucket = "skipped"
                            THEN Append(skipped_files, filename)
                            ELSE skipped_files
        /\ failed_files' = IF bucket = "failed"
                           THEN DictSet(failed_files, filename, FailReason(end))
                           ELSE failed_files
        /\ success_files' = IF bucket = "success"
                            THEN Append(success_files, SuccessEntry(filename, renamed))
                            ELSE success_files
        /\ staging' = StagingAfter(local_temp_path(upload_filename), end, e)
        /\ dstDir' = IF Uploaded(end) THEN dstDir \cup {upload_filename} ELSE dstDir
        /\ srcDir' = IF end = "moved"
                     THEN SelectSeq(srcDir, LAMBDA f : f # filename)
                     ELSE srcDir
        /\ IF FileRaises(end, e)
           THEN pc' = "except" /\ UNCHANGED idx
           ELSE pc' = "loop" /\ idx' = idx + 1
    /\ UNCHANGED <<cfgVars, found_files, errors, source_conn, dest_conn,
                   file_list, total_files, pending, runs, reports,
                   errors_before, loop_done, result>>

\* after the loop: close both sessions, then go to the report
CloseConnections ==
    /\ pc = "loop"
    /\ idx > Len(file_list)
    /\ loop_done' = TRUE
    /\ \/ /\ source_conn' = "closed"
          /\ dest_conn' = "closed"
          /\ calls' = calls \o <<Call("close_source", <<>>, <<>>, "ok"),
                                 Call("close_dest", <<>>, <<>>, "ok")>>
          /\ pending' = <<total_files, Len(success_files), Len(skipped_files),
                          Cardinality(DOMAIN failed_files)>>
          /\ pc' = "report"
          /\ UNCHANGED faults
       \/ /\ CanRaiseOnClose(source_use_sftp)
          /\ CanDisturb(1)
          /\ faults' = faults + 1
          /\ calls' = Append(calls, Call("close_source", <<>>, <<>>, "raise"))
          /\ pc' = "except"
          /\ UNCHANGED <<source_conn, dest_conn, pending>>
       \/ /\ CanRaiseOnClose(dest_use_sftp)
          /\ CanDisturb(1)
          /\ faults' = faults + 1
          /\ source_conn' = "closed"
          /\ calls' = calls \o <<Call("close_source", <<>>, <<>>, "ok"),
                                 Call("close_dest", <<>>, <<>>, "raise")>>
          /\ pc' = "except"
          /\ UNCHANGED <<dest_conn, pending>>
    /\ UNCHANGED <<cfgVars, bucketVars, errors, file_list, total_files, idx,
                   worldVars, runs, reports, errors_before, result>>

\* ------------------------------------------------------------------------
\* Reporting
\* ------------------------------------------------------------------------
\* the subject prefix chosen by _prepare_email_content
SubjectPrefix(errs, failed_count, total) ==
    IF Len(errs) > 0 THEN "[error]"
    ELSE IF failed_count >= failure_threshold THEN "[warning] too many failures"
    ELSE IF failed_count > 0
         THEN IF failed_count = total THEN "[failed] all files failed"
              ELSE "[partial success]"
    ELSE ""

\* subject and counts _prepare_email_content puts in the report
_prepare_email_content(errs, delivery) ==
    [delivery |-> delivery,
     subject_prefix |-> SubjectPrefix(errs, Cardinality(DOMAIN failed_files),
                                      Len(found_files)),
     total_files |-> Len(found_files),
     success_count |-> Len(success_files),
     skipped_count |-> Len(skipped_files),
     failed_count |-> Cardinality(DOMAIN failed_files)]

\* send_email_notification returns silently when notification is disabled or
\* the mail is delivered, and re-raises when delivery fails
DeliveryCanFail == email_enable

\* how a call of send_email_notification that does not raise went
Delivered == IF email_enable THEN "sent" ELSE "disabled"

\* the report before a return statement of the try block
Report ==
    /\ pc = "report"
    /\ \/ /\ reports' = Append(reports, _prepare_email_content(errors, Delivered))
          /\ result' = Returned(pending)
          /\ pc' = "idle"
          /\ UNCHANGED faults
       \/ /\ DeliveryCanFail
          /\ CanDisturb(1)
          /\ faults' = faults + 1
          /\ reports' = Append(reports, _prepare_email_content(errors, "failed"))
          /\ pc' = "except"
          /\ UNCHANGED result
    /\ UNCHANGED <<cfgVars, bucketVars, errors, source_conn, dest_conn,
                   file_list, total_files, idx, pending, worldVars, runs,
                   calls, errors_before, loop_done>>

\* the outermost except clause: record the error, report, return zeros
Except ==
    /\ pc = "except"
    /\ errors' = Append(errors, "run")
    /\ pc' = "idle"
    /\ \/ /\ reports' = Append(reports,
                    _prepare_email_content(Append(errors, "run"), Delivered))
          /\ result' = Returned(<<0, 0, 0, 0>>)
          /\ UNCHANGED faults
       \/ /\ DeliveryCanFail
          /\ CanDisturb(1)
          /\ faults' = faults + 1
          /\ reports' = Append(reports,
                    _prepare_email_content(Append(errors, "run"), "failed"))
          /\ result' = Raised
    /\ UNCHANGED <<cfgVars, bucketVars, source_conn, dest_conn, file_list,
                   total_files, idx, pending, worldVars, runs, calls,
                   errors_before, loop_done>>

Next ==
    \/ Invoke
    \/ ConnectSource
    \/ ListFiles
    \/ FilterFiles
    \/ ConnectDest
    \/ ProcessFile
    \/ CloseConnections
    \/ Report
    \/ Except

Spec == Init /\ [][Next]_vars

\* ------------------------------------------------------------------------
\* _generate_timestamped_filename on its own: an instance that only
\* generates names, each call at a later instant than the one before
\* ------------------------------------------------------------------------
NamingInit ==
    /\ Init
    /\ cfgVars =
          <<DefaultConfig.source_config,
            DefaultConfig.source_use_sftp, DefaultConfig.dest_use_sftp,
            DefaultConfig.file_exists_strategy,
            DefaultConfig.source_enable_backup,
            DefaultConfig.source_backup_dir, DefaultConfig.email_enable,
            DefaultConfig.failure_threshold, DefaultConfig.file_filter>>
    /\ srcDir = <<>>

\* one call of _generate_timestamped_filename, kept with its result
GenerateName ==
    /\ pc = "idle"
    /\ runs = 0
    /\ Len(calls) < MaxResolutions
    /\ \E filename \in Range(SourceFiles), t \in (now + 1)..MaxInstant :
          /\ now' = t
          /\ calls' = Append(calls,
                  Call("resolve", filename,
                       _generate_timestamped_filename(filename, t), "renamed"))
    /\ UNCHANGED <<cfgVars, bucketVars, errors, pc, source_conn, dest_conn,
                   file_list, total_files, idx, pending, srcDir, dstDir,
                   staging, runs, faults, reports, errors_before, loop_done,
                   result>>

NamingNext == GenerateName

SpecNaming == NamingInit /\ [][NamingNext]_vars


\* ------------------------------------------------------------------------
\* Listing and filtering on their own: the first invocation of a fresh
\* instance, taken from the moment its source session is open, over source
\* directories that also hold a subdirectory and over every rule
\* _filter_files tells apart
\* ------------------------------------------------------------------------
InsertAt(s, i, x) == SubSeq(s, 1, i) \o <<x>> \o SubSeq(s, i + 1, Len(s))

\* the listings, alone or with the subdirectory at any place
DirEntries ==
    Listings \cup UNION {{InsertAt(l, i, NameS) : i \in 0..Len(l)} :
                          l \in Listings}

SelectionInit ==
    /\ source_config \in
          {[DefaultConfig.source_config EXCEPT !.directory = d] :
              d \in {k.directory : k \in SourceKeyValues}}
    /\ source_use_sftp \in BOOLEAN
    /\ dest_use_sftp = DefaultConfig.dest_use_sftp
    /\ file_exists_strategy = DefaultConfig.file_exists_strategy
    /\ source_enable_backup = DefaultConfig.source_enable_backup
    /\ source_backup_dir = DefaultConfig.source_backup_dir
    /\ email_enable = DefaultConfig.email_enable
    /\ failure_threshold = DefaultConfig.failure_threshold
    /\ file_filter \in FilterRules
    /\ found_files = <<>>
    /\ success_files = <<>>
    /\ skipped_files = <<>>
    /\ failed_files = EmptyDict
    /\ errors = <<>>
    /\ renamed_files = EmptyDict
    /\ pc = "list"
    /\ source_conn = "open"
    /\ dest_conn = "none"
    /\ file_list = <<>>
    /\ total_files = 0
    /\ idx = 0
    /\ pending = <<0, 0, 0, 0>>
    /\ srcDir \in DirEntries
    /\ dstDir = {}
    /\ staging = {}
    /\ now = 0
    /\ runs = 1
    /\ faults = 0
    /\ calls = <<Call("connect_source", <<>>, <<>>, "ok")>>
    /\ reports = <<>>
    /\ errors_before = 0
    /\ loop_done = FALSE
    /\ result = NoResult

SelectionNext == ListFiles \/ FilterFiles

SpecSelection == SelectionInit /\ [][SelectionNext]_vars


\* ------------------------------------------------------------------------
\* Staging directories on their own: instances constructed on one machine,
\* at the same instant or one after the other, each staging the file b once
\* ------------------------------------------------------------------------
MaxInstances == 2

\* datetime.now().strftime('%Y%m%d_%H%M%S')
ArchiveStamp(t) ==
    SubSeq(Strftime(t), 1, 8) \o <<"_">> \o SubSeq(Strftime(t), 9, 14)

\* generate_archive_dir: the directory named by the second of the call below
\* the archives directory; _ensure_directory_exists creates it when it is
\* missing and takes it as it is otherwise
generate_archive_dir(t) == <<"archives", "/">> \o ArchiveStamp(t)

\* the constructions so far, in order; instance i is the i-th of them
Instances == SelectSeq(calls, LAMBDA c : c.op = "generate_archive_dir")

ArchiveDirOf(i) == Instances[i].arg

StagingPath(i, upload_filename) ==
    ArchiveDirOf(i) \o <<"/">> \o local_temp_path(upload_filename)

DidCall(op, i) == \E k \in 1..Len(calls) : calls[k].op = op /\ calls[k].name = i

StagingInit == NamingInit

\* FTPTransfer.__init__ of one more instance
Construct ==
    /\ pc = "idle"
    /\ runs = 0
    /\ Len(Instances) < MaxInstances
    /\ \E t \in now..MaxInstant :
          /\ now' = t
          /\ calls' = Append(calls,
                Call("generate_archive_dir", Len(Instances) + 1,
                     generate_archive_dir(t),
                     IF \E k \in 1..Len(Instances) :
                            ArchiveDirOf(k) = generate_archive_dir(t)
                     THEN "existed" ELSE "created"))
    /\ UNCHANGED staging
    /\ UNCHANGED <<cfgVars, bucketVars, errors, pc, source_conn, dest_conn,
                   file_list, total_files, idx, pending, srcDir, dstDir,
                   runs, faults, reports, errors_before, loop_done, result>>

\* instance i downloads b into its staging file, over whatever is there
StageFile ==
    /\ pc = "idle"
    /\ runs = 0
    /\ \E i \in 1..Len(Instances) :
          /\ ~DidCall("download", i)
          /\ LET path == StagingPath(i, NameB)
                 there == {s \in staging : s.path = path}
             IN /\ staging' = (staging \ there)
                                 \cup {[path |-> path, owner |-> i]}
                /\ calls' = Append(calls,
                      Call("download", i, path,
                           IF there = {} THEN "created" ELSE "overwrote"))
    /\ UNCHANGED <<cfgVars, bucketVars, errors, pc, source_conn, dest_conn,
                   file_list, total_files, idx, pending, srcDir, dstDir, now,
                   runs, faults, reports, errors_before, loop_done, result>>

\* instance i uploads from its staging file and removes it; upload_file
\* answers False when the file is gone
UnstageFile ==
    /\ pc = "idle"
    /\ runs = 0
    /\ \E i \in 1..Len(Instances) :
          /\ DidCall("download", i)
          /\ ~DidCall("upload", i)
          /\ LET path == StagingPath(i, NameB)
                 there == {s \in staging : s.path = path}
             IN /\ staging' = staging \ there
                /\ calls' = Append(calls,
                      Call("upload", i, path,
                           IF there = {} THEN "missing"
                           ELSE IF \E s \in there : s.owner = i THEN "own"
                           ELSE "foreign"))
    /\ UNCHANGED <<cfgVars, bucketVars, errors, pc, source_conn, dest_conn,
                   file_list, total_files, idx, pending, srcDir, dstDir, now,
                   runs, faults, reports, errors_before, loop_done, result>>

StagingNext == Construct \/ StageFile \/ UnstageFile

SpecStaging == StagingInit /\ [][StagingNext]_vars


\* ------------------------------------------------------------------------
\* get_file_modification_time on its own: one FTP session, logged in, on
\* which the function is called for files of the source directory
\* ------------------------------------------------------------------------
MaxQueries == 2

\* what the server does with MDTM: a 213 reply with the instant, another
\* positive reply, a permanent error, or anything else that raises
MdtmAnswers ==
    {[kind |-> "213", time |-> t] : t \in FileTimes}
    \cup {[kind |-> k, time |-> NoTime] : k \in {"other_reply", "perm", "raise"}}

\* get_file_modification_time in a session whose working directory is wd:
\* pwd, cwd(directory), MDTM. A 213 reply returns the instant at once; a
\* permanent error and any other reply go on to cwd(original_dir) and None;
\* every other exception, that of cwd included, returns None from the outer
\* handler. The result is kept with the working directory left behind
get_file_modification_time(wd, directory, answer) ==
    IF ~CwdOk(wd, directory)
    THEN [result |-> NoTime, wd |-> wd]
    ELSE CASE answer.kind = "213" ->
                [result |-> answer.time, wd |-> Resolve(wd, directory)]
           [] answer.kind = "raise" ->
                [result |-> NoTime, wd |-> Resolve(wd, directory)]
           [] OTHER -> [result |-> NoTime, wd |-> wd]

\* the working directory of the session: the login directory, then what
\* the last call left
SessionDir ==
    IF calls = <<>> THEN LoginDir ELSE calls[Len(calls)].arg.after

TimestampInit ==
    /\ Init
    /\ source_config.enable_backup = "absent"
    /\ source_config.backup_enabled = "absent"
    /\ <<source_use_sftp, dest_use_sftp, file_exists_strategy,
         source_enable_backup, source_backup_dir, email_enable,
         failure_threshold, file_filter>> =
          <<DefaultConfig.source_use_sftp, DefaultConfig.dest_use_sftp,
            DefaultConfig.file_exists_strategy,
            DefaultConfig.source_enable_backup,
            DefaultConfig.source_backup_dir, DefaultConfig.email_enable,
            DefaultConfig.failure_threshold, DefaultConfig.file_filter>>
    /\ dstDir = {}

\* one call of get_file_modification_time for a file of the directory
QueryTime ==
    /\ pc = "idle"
    /\ runs = 0
    /\ Len(calls) < MaxQueries
    /\ \E f \in Range(srcDir), answer \in MdtmAnswers :
          LET out == get_file_modification_time(SessionDir,
                         source_config.directory, answer)
          IN calls' = Append(calls,
                  Call("get_file_modification_time", f,
                       [before |-> SessionDir, after |-> out.wd,
                        reply |-> IF CwdOk(SessionDir, source_config.directory)
                                  THEN answer.kind ELSE "no_cwd",
                        result |-> out.result],
                       IF out.result = NoTime THEN "none" ELSE "ok"))
    /\ UNCHANGED <<cfgVars, bucketVars, errors, pc, source_conn, dest_conn,
                   file_list, total_files, idx, pending, worldVars, runs,
                   faults, reports, errors_before, loop_done, result>>

TimestampNext == QueryTime

SpecTimestamp == TimestampInit /\ [][TimestampNext]_vars


\* ------------------------------------------------------------------------
\* Properties
\* ------------------------------------------------------------------------
\* an invocation of transfer_files has ended
Finished == pc = "idle" /\ runs > 0

HasCall(op, st) == \E i \in 1..Len(calls) : calls[i].op = op /\ calls[i].status = st

Attempted(op) == \E i \in 1..Len(calls) : calls[i].op = op

PerFileOps == {"exists", "cwd_source", "download", "cwd_dest", "upload", "move"}

\* the calls of the current invocation made for file f
CallsOf(f) == SelectSeq(calls, LAMBDA c : c.name = f)

\* the file name an entry of success_files stands for
OrigOf(entry) ==
    IF \E j \in 1..Len(entry) : entry[j] = " -> "
    THEN SubSeq(entry, 1, (CHOOSE j \in 1..Len(entry) : entry[j] = " -> ") - 1)
    ELSE entry

InSuccess(f) == \E i \in 1..Len(success_files) : OrigOf(success_files[i]) = f

InSkipped(f) == \E i \in 1..Len(skipped_files) : skipped_files[i] = f

InFailed(f) == f \in DOMAIN failed_files

BucketCount(f) ==
      Cardinality({i \in 1..Len(success_files) : OrigOf(success_files[i]) = f})
    + Cardinality({i \in 1..Len(skipped_files) : skipped_files[i] = f})
    + (IF InFailed(f) THEN 1 ELSE 0)

\* the errors recorded by the current invocation
RunErrors == SubSeq(errors, errors_before + 1, Len(errors))

\* C1: when an invocation has passed the destination connect and finished the
\* per-file loop, every file of the filtered list is in exactly one of
\* succeeded, skipped, failed, and the returned counts add up.
C1_BucketPartition ==
    (Finished /\ loop_done) =>
        /\ \A f \in Range(file_list) : BucketCount(f) = 1
        /\ result.kind = "returned" =>
              result.value[1] = result.value[2] + result.value[3] + result.value[4]

\* C2: every invocation calls the reporter exactly once.
C2_ReporterExactlyOnce == Finished => Len(reports) = 1

\* C3: transfer_files never raises to its caller; every invocation returns a
\* 4-tuple.
C3_NeverRaises == Finished => result.kind = "returned"

\* C4: a failed delivery is only logged: the invocation returns the tuple of
\* its return statement, records no error for it and raises nothing.
C4_DeliveryFailureOnlyLogged ==
    (Finished /\ \E i \in 1..Len(reports) : reports[i].delivery = "failed") =>
        /\ result.kind = "returned"
        /\ result.value = pending
        /\ "run" \notin Range(RunErrors)

\* C5: a failed source connect returns (0,0,0,0), attempts no destination
\* connect, adds exactly one entry to errors and reports exactly once.
C5_SourceConnectFailure ==
    (Finished /\ HasCall("connect_source", "raise")) =>
        /\ result = Returned(<<0, 0, 0, 0>>)
        /\ ~Attempted("connect_dest")
        /\ Len(RunErrors) = 1
        /\ Len(reports) = 1

\* C6: a failed destination connect after N > 0 filtered files returns
\* (N,0,0,0), performs no per-file operation and reports exactly once with an
\* error-flagged subject.
C6_DestConnectFailure ==
    (Finished /\ HasCall("connect_dest", "raise")) =>
        /\ total_files > 0
        /\ result = Returned(<<total_files, 0, 0, 0>>)
        /\ \A i \in 1..Len(calls) : calls[i].op \notin PerFileOps
        /\ Len(reports) = 1
        /\ reports[1].subject_prefix = "[error]"

\* C7: an empty filtered list connects to the source only, disconnects it,
\* sends one zero-tally report and returns (0,0,0,0) with no entry in errors.
C7_EmptyFilteredList ==
    (Finished /\ HasCall("list", "ok") /\ file_list = <<>>) =>
        /\ ~Attempted("connect_dest")
        /\ HasCall("close_source", "ok")
        /\ Len(reports) = 1
        /\ reports[1].total_files = 0
        /\ reports[1].success_count = 0
        /\ reports[1].skipped_count = 0
        /\ reports[1].failed_count = 0
        /\ result = Returned(<<0, 0, 0, 0>>)
        /\ RunErrors = <<>>

\* the bucket the calls made for f lead to
OwnBucket(f) ==
    LET own == CallsOf(f) IN
    IF \E i \in 1..Len(own) : own[i].op = "exists" /\ own[i].status = "true"
                              /\ LowerStrategy(file_exists_strategy) = "skip"
    THEN "skipped"
    ELSE IF \E i \in 1..Len(own) : own[i].op \in {"cwd_source", "download", "upload", "move"}
                                   /\ own[i].status \in {"fail", "perm"}
    THEN "failed"
    ELSE "success"

InBucket(f, b) ==
    CASE b = "skipped" -> InSkipped(f)
      [] b = "failed" -> InFailed(f)
      [] OTHER -> InSuccess(f)

C9_PerFileFailuresCaught == ~(pc = "except" /\ idx >= 1 /\ ~loop_done)

\* C10: under strategy skip a file the existence check reports as present is
\* not downloaded, uploaded or moved, and is recorded in skipped and in no
\* other bucket.
C10_SkipTransfersNothing ==
    \A i \in 1..Len(calls) :
        (/\ calls[i].op = "exists"
         /\ calls[i].status = "true"
         /\ LowerStrategy(file_exists_strategy) = "skip") =>
            LET f == calls[i].name IN
            /\ \A j \in 1..Len(calls) :
                  calls[j].name = f => calls[j].op \notin {"download", "upload", "move"}
            /\ InSkipped(f)
            /\ ~InSuccess(f)
            /\ ~InFailed(f)

\* the call of operation op made for file f uses the name name: the upload
\* name, the staging path of the download, the landing name of the move
UsesName(c, name) ==
    CASE c.op = "upload" -> c.arg = name
      [] c.op = "download" -> c.arg = local_temp_path(name)
      [] c.op = "move" -> c.arg = <<source_backup_dir, "/">> \o name
      [] OTHER -> TRUE

\* the existence check of the current invocation answered st for file f
ExistsAnswered(f, st) ==
    \E i \in 1..Len(calls) :
        calls[i].op = "exists" /\ calls[i].name = f /\ calls[i].status = st

\* C11: when the existence check reports that the destination does not hold
\* the file, every transfer call for it uses the original name and the
\* renamed map has no entry for it, whatever the strategy is.
C11_AbsentKeepsName ==
    \A f \in Range(file_list) :
        ExistsAnswered(f, "false") =>
            /\ f \notin DOMAIN renamed_files
            /\ \A j \in 1..Len(calls) : calls[j].name = f => UsesName(calls[j], f)

\* a file the destination does not hold was uploaded under a strategy that
\* is none of skip, overwrite, rename
C11_Witness ==
    /\ LowerStrategy(file_exists_strategy) \notin {"skip", "overwrite", "rename"}
    /\ \E f \in Range(file_list) :
          /\ ExistsAnswered(f, "false")
          /\ \E j \in 1..Len(calls) :
                calls[j].name = f /\ calls[j].op = "upload" /\ calls[j].status = "ok"

\* download and upload of f succeeded and no move of f failed
TransferSucceeded(f) ==
    /\ \E j \in 1..Len(calls) :
          calls[j].name = f /\ calls[j].op = "upload" /\ calls[j].status = "ok"
    /\ \A j \in 1..Len(calls) :
          (calls[j].name = f /\ calls[j].op = "move") => calls[j].status = "ok"

\* C12: under strategy overwrite a file the destination already holds is
\* uploaded under its original name, gets no entry in the renamed map and,
\* when its transfer succeeds, is in succeeded under its plain name.
C12_OverwriteKeepsName ==
    LowerStrategy(file_exists_strategy) = "overwrite" =>
        \A f \in Range(file_list) :
            ExistsAnswered(f, "true") =>
                /\ f \notin DOMAIN renamed_files
                /\ \A j \in 1..Len(calls) : calls[j].name = f => UsesName(calls[j], f)
                /\ TransferSucceeded(f) => f \in Range(success_files)

\* an existing destination file was overwritten and recorded
C12_Witness ==
    /\ LowerStrategy(file_exists_strategy) = "overwrite"
    /\ \E f \in Range(file_list) :
          /\ ExistsAnswered(f, "true")
          /\ TransferSucceeded(f)
          /\ f \in Range(success_files)

\* the upload names the current invocation has chosen for file f
ChosenNames(f) ==
    {calls[i].arg : i \in {j \in 1..Len(calls) :
                              calls[j].op = "resolve" /\ calls[j].name = f}}

\* C13: at every point of an invocation a file name is a key of the renamed
\* map if and only if the invocation has chosen for it an upload name that
\* differs from its source name, and the mapped value is the name the
\* download stages, the upload writes and the backup move lands on.
C13_RenamedIffDiffers ==
    (runs > 0) =>
        \A f \in Range(SourceFiles) :
            /\ f \in DOMAIN renamed_files <=> \E n \in ChosenNames(f) : n # f
            /\ f \in DOMAIN renamed_files =>
                  /\ ChosenNames(f) = {renamed_files[f]}
                  /\ \A j \in 1..Len(calls) :
                        calls[j].name = f => UsesName(calls[j], renamed_files[f])

\* C13 for the first invocation of an instance only
C13_FirstInvocation == (runs = 1) => C13_RenamedIffDiffers

\* a renamed file was uploaded and moved to the backup directory
C13_Witness ==
    /\ runs = 1
    /\ \E f \in DOMAIN renamed_files :
          /\ renamed_files[f] # f
          /\ \E j \in 1..Len(calls) :
                calls[j].name = f /\ calls[j].op = "upload" /\ calls[j].status = "ok"

Digits == {"0", "1", "2", "3", "4", "5", "6", "7", "8", "9"}

\* name is base_<14 digits>ext for the base and extension of filename
TimestampedForm(filename, name) ==
    LET p == SplitExt(filename)
        b == Len(p.base)
    IN /\ Len(name) = Len(filename) + 15
       /\ SubSeq(name, 1, b) = p.base
       /\ name[b + 1] = "_"
       /\ \A i \in (b + 2)..(b + 15) : name[i] \in Digits
       /\ SubSeq(name, b + 16, Len(name)) = p.ext

\* C14: the name generated for base.ext is base_<14-digit timestamp>.ext, and
\* two generations for the same name at two different instants give two
\* distinct names.
C14_TimestampedAndDistinct ==
    /\ \A i \in 1..Len(calls) :
          calls[i].status = "renamed" =>
              TimestampedForm(calls[i].name, calls[i].arg)
    /\ \A i, j \in 1..Len(calls) :
          (i < j /\ calls[i].status = "renamed" /\ calls[j].status = "renamed"
                 /\ calls[i].name = calls[j].name) =>
              calls[i].arg # calls[j].arg

\* the first half of C14 alone: the form of every generated name
C14_Form ==
    \A i \in 1..Len(calls) :
        calls[i].status = "renamed" =>
            TimestampedForm(calls[i].name, calls[i].arg)

UnknownStrategy ==
    LowerStrategy(file_exists_strategy) \notin {"skip", "overwrite", "rename"}

\* C15: under a strategy that is none of skip, overwrite, rename, a file the
\* destination already holds gets a timestamped upload name that is recorded
\* in the renamed map and used by its transfer calls; it is neither skipped
\* nor uploaded under its own name.
C15_UnknownStrategyRenames ==
    UnknownStrategy =>
        \A f \in Range(file_list) :
            ExistsAnswered(f, "true") =>
                /\ f \in DOMAIN renamed_files
                /\ TimestampedForm(f, renamed_files[f])
                /\ ChosenNames(f) = {renamed_files[f]}
                /\ \A j \in 1..Len(calls) :
                      calls[j].name = f =>
                          /\ UsesName(calls[j], renamed_files[f])
                          /\ calls[j].op = "upload" => calls[j].arg # f
                /\ ~InSkipped(f)

\* under an unknown strategy an existing file was uploaded under a new name
C15_Witness ==
    /\ UnknownStrategy
    /\ \E f \in Range(file_list) :
          /\ ExistsAnswered(f, "true")
          /\ \E j \in 1..Len(calls) :
                /\ calls[j].name = f /\ calls[j].op = "upload"
                /\ calls[j].status = "ok" /\ calls[j].arg # f

\* the file was downloaded and uploaded by the current invocation
Transferred(f) ==
    \E j \in 1..Len(calls) :
        calls[j].name = f /\ calls[j].op = "upload" /\ calls[j].status = "ok"

MoveCount(f) ==
    Cardinality({j \in 1..Len(calls) : calls[j].name = f /\ calls[j].op = "move"})

\* C16: for a file whose download and upload succeeded the move is invoked
\* exactly once when enable_backup is true and backup_directory is
\* non-empty; otherwise it is never invoked and the file is in succeeded.
C16_MoveIffBackupConfigured ==
    \A f \in Range(file_list) :
        Transferred(f) =>
            IF source_enable_backup /\ source_backup_dir # ""
            THEN MoveCount(f) = 1
            ELSE MoveCount(f) = 0 /\ InSuccess(f)

\* backup switched off with a backup directory given: a file was transferred
C16_Witness ==
    /\ ~source_enable_backup
    /\ source_backup_dir # ""
    /\ \E f \in Range(file_list) : Transferred(f) /\ InSuccess(f)

\* C17: when the source section sets backup_enabled to False and gives a
\* non-empty backup_directory, a file that is downloaded and uploaded is
\* never moved and is recorded in succeeded.
C17_BackupEnabledFalseNoMove ==
    (source_config.backup_enabled = "false" /\ source_backup_dir # "") =>
        \A f \in Range(file_list) :
            Transferred(f) => MoveCount(f) = 0 /\ InSuccess(f)

MoveFailed(f) ==
    \E j \in 1..Len(calls) :
        calls[j].name = f /\ calls[j].op = "move" /\ calls[j].status = "fail"

\* the per-file loop was left with an exception during the iteration of f
LoopLeftAt(f) ==
    /\ pc = "except"
    /\ ~loop_done
    /\ idx \in 1..Len(file_list)
    /\ file_list[idx] = f

\* C18: when the move of a downloaded and uploaded file fails, the file is
\* recorded in failed with a reason and not in succeeded, and the loop goes
\* on to the next file.
C18_MoveFailureRecorded ==
    \A f \in Range(file_list) :
        MoveFailed(f) =>
            /\ InFailed(f)
            /\ failed_files[f] = "move"
            /\ ~InSuccess(f)
            /\ ~LoopLeftAt(f)

\* the bucket half of C18 alone
C18_Buckets ==
    \A f \in Range(file_list) :
        MoveFailed(f) =>
            InFailed(f) /\ failed_files[f] = "move" /\ ~InSuccess(f)

\* C19: the existence check never raises: it answers true exactly when the
\* server confirms the file, and false for a missing file and for a fault;
\* when the loop is left during a file's iteration, another call raised.
C19_ExistsNeverRaises ==
    /\ \A i \in 1..Len(calls) :
          calls[i].op = "exists" =>
              /\ calls[i].status \in {"true", "false"}
              /\ calls[i].status = "true" <=> calls[i].arg = "present"
    /\ \A f \in Range(file_list) :
          LoopLeftAt(f) =>
              \E j \in 1..Len(calls) :
                  /\ calls[j].name = f
                  /\ calls[j].op # "exists"
                  /\ calls[j].status = "raise"

\* the check hit a fault, answered false, and the file was transferred
C19_Witness ==
    \E i \in 1..Len(calls) :
        /\ calls[i].op = "exists"
        /\ calls[i].arg = "fault"
        /\ calls[i].status = "false"
        /\ Transferred(calls[i].name)

CloseOps == {"close_source", "close_dest"}

\* C20: closing a session never raises into transfer_files, for FTP and
\* SFTP alike: an invocation in which a close failed records no run-level
\* error for it and returns the tuple of its return statement.
C20_DisconnectNeverRaises ==
    /\ \A i \in 1..Len(calls) :
          calls[i].op \in CloseOps => calls[i].status # "raise"
    /\ (Finished /\ \E i \in 1..Len(calls) :
                       calls[i].op \in CloseOps /\ calls[i].status # "ok") =>
          /\ "run" \notin Range(RunErrors)
          /\ result.kind = "returned"

\* the regular files among the entries of the source directory, in order
RegularFiles(entries) == SelectSeq(entries, LAMBDA n : ~IsDir(n))

\* whether the listing of this invocation returned
Listed == pc = "filter" /\ HasCall("list", "ok")

\* C21: a listing that returns gives exactly the regular files of the
\* directory in listing order: every directory entry is excluded and every
\* regular file is included, over FTP and over SFTP.
C21_ListingRegularFiles == Listed => file_list = RegularFiles(srcDir)

\* what the listing does guarantee: it never returns a directory entry, it
\* keeps the order, and over SFTP it returns every regular file
C21_NoDirectoryListed ==
    Listed =>
        /\ \A i \in 1..Len(file_list) : ~IsDir(file_list[i])
        /\ source_use_sftp => file_list = RegularFiles(srcDir)
        /\ file_list \in {RegularFiles(srcDir), <<>>}

\* the rule is all, or there is no rule
PassThroughRule == file_filter.type \in {"none", "all"}

\* C22: the filter step under the rule all, or under no rule, leaves the
\* list as it was, same names in the same order, whatever the list is, and
\* opens no connection.
C22_AllPassesThrough ==
    [][(pc = "filter" /\ PassThroughRule) =>
          /\ file_list' = file_list
          /\ ~\E i \in 1..Len(calls') : calls'[i].op = "filter_connect"]_vars

C22_Witness ==
    /\ pc = "connect_dest"
    /\ file_filter.type = "all"
    /\ Len(file_list) >= 2
    /\ file_list = RegularFiles(srcDir)

\* the name has a dot and the text after its last dot is, ignoring case,
\* one of the extensions
SuffixInSet(name, extensions) ==
    /\ "." \in Range(name)
    /\ \E i \in 1..Len(extensions) :
          LowerStr(extensions[i]) =
              LowerStr(SubSeq(name, LastDot(name) + 1, Len(name)))

\* C23: the filter step under an extension rule keeps a name if and only if
\* the name has a dot and the text after its last dot equals, ignoring case,
\* one of the configured extensions; a name without a dot is never kept.
C23_ExtensionKeepsSuffix ==
    [][(pc = "filter" /\ file_filter.type = "extension") =>
          file_list' = SelectSeq(file_list,
              LAMBDA f : SuffixInSet(f, file_filter.extensions))]_vars

\* what the extension rule does guarantee: the claim, for extension sets
\* without the empty text
C23_NonEmptyExtensions ==
    [][(/\ pc = "filter"
        /\ file_filter.type = "extension"
        /\ \A i \in 1..Len(file_filter.extensions) :
              file_filter.extensions[i] # <<>>) =>
          file_list' = SelectSeq(file_list,
              LAMBDA f : SuffixInSet(f, file_filter.extensions))]_vars

\* the answer the server gave for the timestamp of f during the filter step
\* that just ended, NoTime when it was not asked or gave nothing
TimeAnswer(f) ==
    IF \E i \in 1..Len(calls) : calls[i].op = "filter_time" /\ calls[i].name = f
    THEN (CHOOSE c \in Range(calls) : c.op = "filter_time" /\ c.name = f).arg
    ELSE NoTime

\* the filter step of this invocation returned a list under a time rule
\* whose threshold parses
TimeFiltered ==
    /\ pc \in {"connect_dest", "report"}
    /\ NeedFileInfo(file_filter)
    /\ ParseTime(file_filter.time_value).ok
    /\ HasCall("filter_close", "ok")

\* C24: under a since or before rule the filtered list holds exactly the
\* listed regular files whose timestamp was retrieved and is at or after
\* the threshold (since), at or before it (before); a file whose timestamp
\* could not be retrieved is not in the list.
C24_TimeWindowKeeps ==
    (TimeFiltered /\ file_filter.time_type \in {"since", "before"}
       /\ HasCall("list", "ok") /\ ~HasCall("list", "raise")) =>
        LET threshold == ParseTime(file_filter.time_value).t
            listed == IF source_use_sftp
                      THEN get_sftp_file_list(srcDir)
                      ELSE get_file_list(srcDir, source_config.directory,
                               \E i \in 1..Len(calls) :
                                   calls[i].op = "list"
                                   /\ calls[i].arg = "size_refused")
        IN file_list = SelectSeq(listed,
               LAMBDA f :
                   /\ file_filter.type = "modification_time"
                   /\ TimeAnswer(f) # NoTime
                   /\ \/ file_filter.time_type = "since"
                         /\ TimeAnswer(f) >= threshold
                      \/ file_filter.time_type = "before"
                         /\ TimeAnswer(f) <= threshold)

C24_Witness ==
    /\ TimeFiltered
    /\ file_filter.time_type = "before"
    /\ Len(file_list) = 1
    /\ \E f \in Range(srcDir) :
          /\ f \notin Range(file_list)
          /\ HasCall("filter_time", "none")
    /\ TimeAnswer(file_list[1]) = ParseTime(file_filter.time_value).t

\* the extra connection of the filter was opened in this invocation and,
\* for the name f, the threshold did not parse or the server gave no
\* timestamp
TimeReadFailed(f) ==
    /\ HasCall("filter_connect", "ok")
    /\ f \in Range(srcDir) /\ ~IsDir(f)
    /\ \/ ~ParseTime(file_filter.time_value).ok
       \/ \E i \in 1..Len(calls) :
             /\ calls[i].op = "filter_time"
             /\ calls[i].name = f
             /\ calls[i].status = "none"

\* C25: when the threshold of a time rule does not parse, or the timestamp
\* of a file cannot be read, _filter_files still returns a list (nothing
\* propagates out of it into the handler of transfer_files) and that list
\* does not hold the file.
C25_TimeErrorsExcludeOnly ==
    \A f \in Range(srcDir) :
        TimeReadFailed(f) =>
            /\ ~HasCall("filter_close", "raise")
            /\ f \notin Range(file_list)

\* what the time branch does guarantee: when closing the extra connection
\* does not raise, the list never holds a file whose threshold or timestamp
\* failed
C25_ExcludedWhenReturned ==
    \A f \in Range(srcDir) :
        (TimeReadFailed(f) /\ ~HasCall("filter_close", "raise")) =>
            f \notin Range(file_list)

\* C26: under a file_filter section that has no type key the filter step
\* keeps every listed file, as under the type all.
C26_MissingTypeKeepsAll ==
    [][(pc = "filter" /\ file_filter.type = "absent") =>
          file_list' = file_list]_vars

\* what the code does with such a section: it keeps nothing
C26_MissingTypeKeepsNothing ==
    [][(pc = "filter" /\ file_filter.type = "absent") =>
          file_list' = <<>>]_vars

\* the invocation listed the source and its filter step returned a list
ListedAndFiltered ==
    /\ HasCall("list", "ok")
    /\ pc \notin {"list", "filter"}
    /\ ~HasCall("filter_connect", "raise")
    /\ ~HasCall("filter_close", "raise")

\* C27: at every report of an invocation that listed and filtered, the
\* found bucket is the filtered list, so the total the report shows is the
\* totalFound of the invocation.
C27_FoundIsFilteredList ==
    (ListedAndFiltered /\ Len(reports) > 0) =>
        /\ found_files = file_list
        /\ \A i \in 1..Len(reports) : reports[i].total_files = total_files

\* what the code does: nothing ever enters the found bucket, and every
\* report shows the total 0
C27_FoundStaysEmpty ==
    /\ found_files = <<>>
    /\ \A i \in 1..Len(reports) : reports[i].total_files = 0

\* C28: two instances never have the same staging directory, also when they
\* are constructed at the same instant or shortly after each other, and no
\* instance overwrites, reads or removes the staging file of another or
\* finds its own gone.
C28_StagingDirExclusive ==
    /\ \A i, j \in 1..Len(Instances) :
          i # j => ArchiveDirOf(i) # ArchiveDirOf(j)
    /\ \A k \in 1..Len(calls) :
          /\ calls[k].op = "download" => calls[k].status = "created"
          /\ calls[k].op = "upload" => calls[k].status = "own"

\* what does hold: an instance meets the staging file of another, or misses
\* its own, only when another instance has the same directory
C28_SharedDirOnly ==
    \A k \in 1..Len(calls) :
        (calls[k].op \in {"download", "upload"}
         /\ calls[k].status \in {"overwrote", "foreign", "missing"}) =>
            \E j \in 1..Len(Instances) :
                j # calls[k].name /\ ArchiveDirOf(j) = ArchiveDirOf(calls[k].name)

\* C29: after the iteration of a file has ended, on any branch, and when
\* transfer_files has returned, the staging directory holds no staging file
\* of the run.
C29_NoStagingFileLeft == staging = {}

\* a call of the invocation that left the staging file behind: the change
\* into the destination directory raised after the download, or a removal
\* failed
LeavesStagingFile(c) ==
    \/ c.op = "cwd_dest" /\ c.status = "raise"
    \/ c.op = "remove" /\ c.status \in {"raise", "fail"}

\* what does hold: in the first invocation a staging file stays behind only
\* after such a call
C29_LeftOnlyAfterRaise ==
    (staging # {} /\ runs = 1) =>
        \E i \in 1..Len(calls) : LeavesStagingFile(calls[i])

\* the four steps of an iteration, in their order
StepRank(op) ==
    CASE op = "exists" -> 1
      [] op = "download" -> 2
      [] op = "upload" -> 3
      [] op = "move" -> 4
      [] OTHER -> 0

\* the calls made for a file, as opposed to those on a whole session
IsFileCall(c) == c.name # <<>>

\* the calls a step adds
NewCalls == SubSeq(calls', Len(calls) + 1, Len(calls'))

\* the calls of one iteration are in step order, each step at most once, an
\* upload only after a download of this iteration that succeeded and a move
\* only after an upload that succeeded
StepsInOrder(new) ==
    \A j \in 1..Len(new) :
        /\ \A i \in 1..(j - 1) :
              (StepRank(new[i].op) > 0 /\ StepRank(new[j].op) > 0) =>
                  StepRank(new[i].op) < StepRank(new[j].op)
        /\ new[j].op = "upload" =>
              \E i \in 1..(j - 1) :
                  new[i].op = "download" /\ new[i].status = "ok"
        /\ new[j].op = "move" =>
              \E i \in 1..(j - 1) :
                  new[i].op = "upload" /\ new[i].status = "ok"

\* C30: the steps of a file occur in the order existence check, download,
\* upload, move, each at most once; an upload is attempted only after the
\* download of that file succeeded and a move only after its upload
\* succeeded; calls for a file are made only in the iteration of that file,
\* the files are taken one after the other, and the loop goes on to the
\* next file only when the current one is in its bucket.
C30_SequentialOrdered ==
    [][/\ (\E i \in 1..Len(NewCalls) : IsFileCall(NewCalls[i])) =>
             /\ pc = "loop" /\ idx \in 1..Len(file_list)
             /\ \A i \in 1..Len(NewCalls) :
                   NewCalls[i].name = file_list[idx]
             /\ NewCalls[1].op = "exists"
             /\ StepsInOrder(NewCalls)
             /\ pc' = "loop" =>
                   \A f \in {file_list[idx]} :
                       InSuccess(f)' \/ InSkipped(f)' \/ InFailed(f)'
       /\ (pc = "loop" /\ pc' = "loop") => idx' = idx + 1]_vars

C30_Witness ==
    \E i, j, k, l \in 1..Len(calls) :
        /\ i < j /\ j < k /\ k < l
        /\ calls[i].op = "upload" /\ calls[i].status = "ok"
        /\ calls[j].op = "move" /\ calls[j].name = calls[i].name
        /\ calls[k].op = "download" /\ calls[k].name # calls[i].name
        /\ calls[k].status = "ok"
        /\ calls[l].op = "upload" /\ calls[l].name = calls[k].name

\* the calls of one iteration use the names as the claim says, for the
\* source name f and the upload name u
NamesUsed(new, f, u) ==
    \A j \in 1..Len(new) :
        /\ new[j].op = "download" =>
              new[j].name = f /\ new[j].arg = local_temp_path(u)
        /\ new[j].op = "upload" => new[j].arg = u
        /\ new[j].op = "move" =>
              new[j].name = f /\ new[j].arg = <<source_backup_dir, "/">> \o u

TimeRule == file_filter.type \in {"creation_time", "modification_time"}

OpIndices(new, op) == {i \in 1..Len(new) : new[i].op = op}

\* the calls of one filter step are those of the claim: no extra connection
\* unless a time rule meets a non-empty listing, then exactly one, opened
\* first; and when nothing was raised, one close, after every timestamp
\* query
ExtraConnectionUse(new, time_rule_applies) ==
    /\ ~time_rule_applies =>
          /\ OpIndices(new, "filter_connect") = {}
          /\ OpIndices(new, "filter_time") = {}
    /\ time_rule_applies =>
          /\ Cardinality(OpIndices(new, "filter_connect")) = 1
          /\ new[1].op = "filter_connect"
    /\ \A i \in OpIndices(new, "filter_connect") :
          (/\ new[i].status = "ok"
           /\ \A c \in OpIndices(new, "filter_close") : new[c].status # "raise") =>
              /\ Cardinality(OpIndices(new, "filter_close")) = 1
              /\ \A c \in OpIndices(new, "filter_close") :
                    /\ new[c].status = "ok"
                    /\ \A t \in OpIndices(new, "filter_time") : i < t /\ t < c

\* the filter step of this invocation is over and _filter_files, if it was
\* called, returned a list
FilterReturned ==
    /\ pc \notin {"idle", "connect_source", "list", "filter"}
    /\ HasCall("list", "ok")
    /\ ~HasCall("filter_connect", "raise")
    /\ ~HasCall("filter_close", "raise")

\* C32: the filter opens an extra source connection only under a
\* creation_time or modification_time rule, then exactly one, and that one
\* is closed after the last timestamp query and before _filter_files
\* returns, whether or not the threshold parsed and the timestamps could be
\* read; under the rules all, pattern and extension it opens none.
C32_ExtraConnectionOnlyForTime ==
    [][pc = "filter" =>
          ExtraConnectionUse(NewCalls, TimeRule /\ file_list # <<>>)]_vars

\* a time rule whose threshold does not parse, and one with a timestamp
\* that could not be read: the extra connection was opened and closed
C32_Witness ==
    /\ FilterReturned
    /\ HasCall("filter_connect", "ok")
    /\ HasCall("filter_close", "ok")
    /\ \/ ~ParseTime(file_filter.time_value).ok
       \/ HasCall("filter_time", "none")

TimeQueries ==
    {i \in 1..Len(calls) : calls[i].op = "get_file_modification_time"}

\* C33: every call of get_file_modification_time that returns after a 213
\* reply or after a permanent error of MDTM leaves the working directory of
\* the session as it found it.
C33_WorkingDirectoryRestored ==
    \A i \in TimeQueries :
        calls[i].arg.reply \in {"213", "perm"} =>
            calls[i].arg.after = calls[i].arg.before

\* what does hold: the directory is restored after a permanent error and
\* after a reply other than 213
C33_RestoredWhenUnsupported ==
    \A i \in TimeQueries :
        calls[i].arg.reply \in {"perm", "other_reply", "no_cwd"} =>
            calls[i].arg.after = calls[i].arg.before

\* the classification of an outcome: errors first, then the threshold, then
\* all failed, then partial success
OutcomeClass(errs, failed_count, found) ==
    IF Len(errs) > 0 THEN "[error]"
    ELSE IF failed_count >= failure_threshold THEN "[warning] too many failures"
    ELSE IF failed_count > 0 /\ failed_count = found
         THEN "[failed] all files failed"
    ELSE IF failed_count > 0 THEN "[partial success]"
    ELSE ""

LastReport == reports[Len(reports)]

FirstRunReported == runs = 1 /\ pc = "idle" /\ reports # <<>>

\* C34: the subject of the report of a first invocation carries the class
\* of its outcome, the found files being the files the filter kept: error,
\* too many failures, all failed, partial success, or no prefix.
C34_SubjectClassifiesOutcome ==
    FirstRunReported =>
        LastReport.subject_prefix =
            OutcomeClass(errors, Cardinality(DOMAIN failed_files),
                         Len(file_list))

\* what does hold: the subject is the class of the outcome against a found
\* count of zero, so it never says that all files failed
C34_ClassifiedAgainstNoFound ==
    FirstRunReported =>
        /\ LastReport.subject_prefix =
              OutcomeClass(errors, Cardinality(DOMAIN failed_files), 0)
        /\ LastReport.subject_prefix # "[failed] all files failed"

HasReturned == pc = "idle" /\ result.kind = "returned" /\ reports # <<>>

TupleMatchesReport ==
    /\ result.value[2] = LastReport.success_count
    /\ result.value[3] = LastReport.skipped_count
    /\ result.value[4] = LastReport.failed_count

\* C35: whenever transfer_files has returned, the succeeded, skipped and
\* failed counts of its tuple are the sizes of the buckets the reporter was
\* given in that invocation, also after an exception inside the loop.
C35_TupleMatchesReport == HasReturned => TupleMatchesReport

\* what does hold: in a first invocation the tuple and the report agree
\* unless the handler of unexpected exceptions returned
C35_MatchesUnlessHandlerReturned ==
    HasReturned /\ runs = 1 /\ ~TupleMatchesReport =>
        /\ errors # <<>>
        /\ errors[Len(errors)] = "run"
        /\ result.value = <<0, 0, 0, 0>>

\* the extra source connection of the filter is open: it was made and no
\* quit of it went through
ExtraConnectionOpen ==
    HasCall("filter_connect", "ok") /\ ~HasCall("filter_close", "ok")

AllSessionsClosed ==
    /\ source_conn # "open"
    /\ dest_conn # "open"
    /\ ~ExtraConnectionOpen

\* C36: when transfer_files has returned, no session it opened is still
\* open: not the source, not the destination, not the filter's extra
\* connection, whatever path the invocation took.
C36_SessionsClosedOnReturn ==
    pc = "idle" /\ result.kind = "returned" => AllSessionsClosed

\* what does hold: a session is left open only when the handler of
\* unexpected exceptions returned
C36_OpenOnlyAfterException ==
    pc = "idle" /\ result.kind = "returned" /\ ~AllSessionsClosed =>
        errors # <<>> /\ errors[Len(errors)] = "run"

AccountingEmpty ==
    /\ success_files = <<>>
    /\ skipped_files = <<>>
    /\ DOMAIN failed_files = {}
    /\ DOMAIN renamed_files = {}
    /\ errors = <<>>

\* C37: every invocation of transfer_files starts from empty accounting:
\* when it is about to connect to the source, succeeded, skipped, failed,
\* renamed and errors are empty, on a reused instance as well.
C37_InvocationStartsEmpty == pc = "connect_source" => AccountingEmpty

\* what does hold: the first invocation of an instance starts empty
C37_FirstInvocationStartsEmpty ==
    pc = "connect_source" /\ runs = 1 => AccountingEmpty

\* the uploads among new calls that went through onto a name the
\* destination held already
UploadsOver(new) ==
    {i \in 1..Len(new) :
        new[i].op = "upload" /\ new[i].status = "ok" /\ new[i].arg \in dstDir}

SkipStrategy == LowerStrategy(file_exists_strategy) = "skip"

\* C38: under strategy skip no step of the run uploads onto a name the
\* destination holds already, also when the existence check of the file
\* hit a fault.
C38_SkipNeverUploadsOver ==
    [][SkipStrategy => UploadsOver(NewCalls) = {}]_vars

\* what does hold: under skip a present file is uploaded over only after
\* its existence check hit a fault
C38_UploadedOverOnlyAfterFault ==
    [][SkipStrategy =>
          \A i \in UploadsOver(NewCalls) :
              \E j \in 1..Len(NewCalls) :
                  /\ NewCalls[j].op = "exists"
                  /\ NewCalls[j].name = NewCalls[i].name
                  /\ NewCalls[j].arg = "fault"]_vars

RenameStrategy == LowerStrategy(file_exists_strategy) = "rename"

CheckFaulted(new) ==
    \E j \in 1..Len(new) : new[j].op = "exists" /\ new[j].arg = "fault"

\* C39: under strategy rename no step of the run uploads onto a name the
\* destination holds at that moment: the upload name of a colliding file is
\* fresh.
C39_RenameNeverUploadsOver ==
    [][RenameStrategy => UploadsOver(NewCalls) = {}]_vars

\* the second half alone: a timestamped upload name is never a name the
\* destination holds
C39_TimestampedNameIsFresh ==
    [][RenameStrategy =>
          \A i \in UploadsOver(NewCalls) :
              NewCalls[i].arg = NewCalls[i].name]_vars

\* what does hold: in the first invocation of an instance an upload goes
\* onto an existing name only after a fault of the existence check
C39_FreshInFirstInvocation ==
    [][RenameStrategy /\ runs = 1 /\ ~CheckFaulted(NewCalls) =>
          UploadsOver(NewCalls) = {}]_vars

FtpCreationRule == ~source_use_sftp /\ file_filter.type = "creation_time"

====
